---- MODULE Spec2Model ----
(***************************************************************************)
(* A model of cudaq.py: the JSONL job ledger, the startup reconciliation   *)
(* and ingest of run_cudaq, and its dispatch loop, together with the part  *)
(* of the operating system the loop talks to (the process table, NVML).    *)
(*                                                                         *)
(* Encodings.  Python's None is the number None (-1): every field that can *)
(* hold None otherwise holds a pid (> 0), a gpu index (>= 0) or a time     *)
(* stamp (>= 0).  A dict such as free_mem_dict is a sequence of            *)
(* <<key, value>> pairs in insertion order, which is the order Python      *)
(* iterates it in.  A line of the ledger file is <<"json", job>> when it   *)
(* is what json.dumps wrote for job, and <<"junk">> when json.loads        *)
(* raises JSONDecodeError on it.  pending_jobs holds indices into          *)
(* all_jobs: in Python the two lists share the same dict objects.          *)
(* A pid is an index into procs; pids are not reused.                      *)
(***************************************************************************)
EXTENDS Integers, Sequences, FiniteSets, TLC

VARIABLES
    disk,             \* the lines of config["jobs_file"]
    commands_file,    \* config["commands_file"]: whether it exists, its lines
    gpu_ids,          \* config["gpu_ids"]
    procs,            \* the OS process table, indexed by pid
    now,              \* the wall clock, in whole poll intervals
    pc,               \* where run_cudaq is; "down" when it is not running
    all_jobs,         \* run_cudaq's all_jobs
    new_commands,     \* the commands of new_commands not yet looked at
    pending_jobs,     \* run_cudaq's pending_jobs (indices into all_jobs)
    job_i,            \* position of the for loop over pending_jobs
    free_mem_dict,    \* run_cudaq's free_mem_dict
    nvml,             \* what NVML answered per device at the last snapshot
    best_gpu,         \* run_cudaq's best_gpu, between Popen and the rewrite
    process_pid,      \* dispatch_job's process.pid
    assigned_any_job, \* run_cudaq's assigned_any_job
    stdout,           \* what the last "status" command printed
    status_seen,      \* the lines of the ledger file that command read
    pc2,              \* a second run_cudaq on the same files: its position,
    all_jobs2,        \* its all_jobs,
    pending_jobs2,    \* its pending_jobs,
    job_i2,           \* its position in the loop over pending_jobs,
    free_mem_dict2,   \* its free_mem_dict,
    best_gpu2,        \* its best_gpu,
    process_pid2,     \* its process.pid,
    children2         \* and the pids of the processes it has started

vars == <<disk, commands_file, gpu_ids, procs, now, pc, all_jobs,
          new_commands, pending_jobs, job_i, free_mem_dict, nvml, best_gpu,
          process_pid, assigned_any_job, stdout, status_seen, pc2, all_jobs2,
          pending_jobs2, job_i2, free_mem_dict2, best_gpu2, process_pid2,
          children2>>

(***************************************************************************)
(* Bounds of the model                                                     *)
(***************************************************************************)
MaxTime == 2          \* the clock stops here
MaxProcs == 3         \* processes ever created, one from an earlier session

(***************************************************************************)
(* Program constants and value spaces                                      *)
(***************************************************************************)
None == -1
NVMLError == -2
min_free_mem_mb == 6000
device_count == 2
MemReadings == {4000, 8000, 10000, 12000}
ExitCodes == {0, 1}
Statuses == {"pending", "running", "completed", "failed"}

\* range(n) as Python iterates it
range(n) == [k \in 1..n |-> k - 1]

\* line.strip() on the lines a commands file is made of here
strip(line) ==
    CASE line = " a" -> "a"
      [] line = " "  -> ""
      [] OTHER       -> line

(***************************************************************************)
(* The ledger file                                                         *)
(***************************************************************************)
json_dumps(job) == <<"json", job>>
JunkLine == <<"junk">>

\* a load that gives up at the first line that does not parse
RECURSIVE load_jobs_until_junk(_)
load_jobs_until_junk(lines) ==
    IF lines = <<>> THEN <<>>
    ELSE IF Head(lines)[1] = "json"
         THEN <<Head(lines)[2]>> \o load_jobs_until_junk(Tail(lines))
         ELSE <<>>

\* load_jobs: the objects of the lines that parse, in file order
RECURSIVE load_jobs(_)
load_jobs(lines) ==
    IF lines = <<>> THEN <<>>
    ELSE IF Head(lines)[1] = "json"
         THEN <<Head(lines)[2]>> \o load_jobs(Tail(lines))
         ELSE load_jobs(Tail(lines))

\* save_job: open(jobs_file, "a") and write one line
save_job(lines, job_data) == Append(lines, json_dumps(job_data))

\* a rewrite that opens the file with "a"
rewrite_appending(lines, jobs) ==
    lines \o [k \in 1..Len(jobs) |-> json_dumps(jobs[k])]

\* a rewrite that keeps a record of the file that is no longer pending when
\* the list to write holds the same job as pending
rewrite_merging(lines, jobs) ==
    LET old == load_jobs(lines)
    IN [k \in 1..Len(jobs) |->
           json_dumps(IF /\ k <= Len(old)
                         /\ old[k].command = jobs[k].command
                         /\ old[k].status # "pending"
                         /\ jobs[k].status = "pending"
                      THEN old[k] ELSE jobs[k])]

\* rewrite_jobs_file: open(jobs_file, "w") and write every job
rewrite_jobs_file(lines, jobs) == [k \in 1..Len(jobs) |-> json_dumps(jobs[k])]

(***************************************************************************)
(* Processes                                                               *)
(***************************************************************************)
\* os.kill(pid, 0) succeeds for a process that is alive and for one that has
\* exited and was not waited for (a zombie); it raises OSError otherwise.
is_process_running(pid, table) ==
    IF pid = None \/ pid <= 0 THEN FALSE
    ELSE pid \in DOMAIN table /\ table[pid].state \in {"alive", "zombie"}

\* os.waitpid(pid, os.WNOHANG)[1], None when it raises ChildProcessError
waitpid_status(pid, table) ==
    IF pid \in DOMAIN table /\ table[pid].child /\ table[pid].state # "gone"
    THEN IF table[pid].state = "zombie" THEN table[pid].code ELSE 0
    ELSE None

\* subprocess._cleanup(), run by every Popen(): the children whose Popen
\* object was dropped and that have exited are waited for; code keeps the
\* exit code the process ended with, which no later waitpid returns
popen_cleanup(table) ==
    [p \in DOMAIN table |->
        IF table[p].child /\ table[p].state = "zombie"
        THEN [table[p] EXCEPT !.state = "gone"]
        ELSE table[p]]

\* subprocess.Popen(job["command"], shell=True, env=...)
Popen(table, command, gpu_id) ==
    Append(popen_cleanup(table),
           [command |-> command, gpu |-> gpu_id, state |-> "alive",
            code |-> None, child |-> TRUE])

\* Popen.__del__ when dispatch_job returns: one non-blocking wait
popen_del(table, pid) ==
    IF table[pid].state = "zombie"
    THEN [table EXCEPT ![pid].state = "gone"]
    ELSE table

\* the scheduler process dies: its children are inherited by init, which
\* waits for the ones that have exited; the exit code of a process that is
\* no longer a child cannot be retrieved
orphan(table) ==
    [p \in DOMAIN table |->
        IF ~table[p].child THEN table[p]
        ELSE IF table[p].state = "zombie"
             THEN [table[p] EXCEPT !.state = "gone", !.code = None,
                                   !.child = FALSE]
             ELSE [table[p] EXCEPT !.code = None, !.child = FALSE]]

(***************************************************************************)
(* Device monitor                                                          *)
(***************************************************************************)
\* d[key] = value on a dict: overwrite in place, or insert at the end
dict_set(d, key, value) ==
    IF \E k \in 1..Len(d) : d[k][1] = key
    THEN [k \in 1..Len(d) |-> IF d[k][1] = key THEN <<key, value>> ELSE d[k]]
    ELSE Append(d, <<key, value>>)

dict_keys(d) == {d[k][1] : k \in 1..Len(d)}
dict_get(d, key) == (CHOOSE k \in 1..Len(d) : d[k][1] = key)

\* get_gpu_free_mem_mb raises NVMLError for an index that is not a device
\* and whenever NVML fails to answer
query_fails(gid, reply) ==
    gid \notin 0..(device_count - 1) \/ reply[gid] = NVMLError

RECURSIVE mem_dict_fill(_, _, _)
mem_dict_fill(ids, reply, mem_dict) ==
    IF ids = <<>> THEN mem_dict
    ELSE mem_dict_fill(Tail(ids), reply,
            IF query_fails(Head(ids), reply) THEN mem_dict
            ELSE dict_set(mem_dict, Head(ids), reply[Head(ids)]))

\* gpu_ids after "if gpu_ids is None: gpu_ids = range(device_count)"
effective_ids(ids) == IF ids = <<None>> THEN range(device_count) ELSE ids

get_all_gpus_free_mem_mb(ids, reply) ==
    mem_dict_fill(effective_ids(ids), reply, <<>>)

\* the devices get_all_gpus_free_mem_mb asks NVML about
queried(ids) == {effective_ids(ids)[k] : k \in 1..Len(effective_ids(ids))}

(***************************************************************************)
(* run_cudaq: startup                                                      *)
(***************************************************************************)
\* a reconciliation that fails every running job without asking the OS
startup_reconcile_all(jobs, table) ==
    [k \in 1..Len(jobs) |->
        IF jobs[k].status = "running"
        THEN [jobs[k] EXCEPT !.status = "failed"]
        ELSE jobs[k]]

\* step 1 of run_cudaq, the loop over all_jobs
startup_reconcile(jobs, table) ==
    [k \in 1..Len(jobs) |->
        IF jobs[k].status = "running" /\ ~is_process_running(jobs[k].pid, table)
        THEN [jobs[k] EXCEPT !.status = "failed"]
        ELSE jobs[k]]

\* [line.strip() for line in f if line.strip()]
RECURSIVE read_commands(_)
read_commands(lines) ==
    IF lines = <<>> THEN <<>>
    ELSE IF strip(Head(lines)) # ""
         THEN <<strip(Head(lines))>> \o read_commands(Tail(lines))
         ELSE read_commands(Tail(lines))

\* a dedup that only looks at the queue of pending jobs
found_pending_only(jobs, cmd) ==
    \E k \in 1..Len(jobs) :
        jobs[k].command = cmd /\ jobs[k].status = "pending"

\* a dedup that ignores the jobs that are over
found_non_terminal(jobs, cmd) ==
    \E k \in 1..Len(jobs) :
        jobs[k].command = cmd /\ jobs[k].status \in {"pending", "running"}

\* any(j["command"] == cmd for j in all_jobs)
found(jobs, cmd) == \E k \in 1..Len(jobs) : jobs[k].command = cmd

new_job(cmd) ==
    [command |-> cmd, status |-> "pending", pid |-> None, gpu_id |-> None,
     start_time |-> None, log_file |-> None]

\* the body of "for cmd in new_commands", on all_jobs
ingest_one(jobs, cmd) ==
    IF found(jobs, cmd) THEN jobs ELSE Append(jobs, new_job(cmd))

\* the whole loop over new_commands, on all_jobs
RECURSIVE ingest_all(_, _)
ingest_all(jobs, cmds) ==
    IF cmds = <<>> THEN jobs
    ELSE ingest_all(ingest_one(jobs, Head(cmds)), Tail(cmds))

(***************************************************************************)
(* run_cudaq: the dispatch loop                                            *)
(***************************************************************************)
\* the "Update status of running jobs" loop
cycle_reconcile(jobs, table) ==
    [k \in 1..Len(jobs) |->
        IF jobs[k].status = "running" /\ ~is_process_running(jobs[k].pid, table)
        THEN IF waitpid_status(jobs[k].pid, table) = 0
             THEN [jobs[k] EXCEPT !.status = "completed"]
             ELSE [jobs[k] EXCEPT !.status = "failed"]
        ELSE jobs[k]]

\* a queue that also retries the jobs that failed
RECURSIVE select_pending_or_failed(_, _)
select_pending_or_failed(jobs, k) ==
    IF k > Len(jobs) THEN <<>>
    ELSE IF jobs[k].status \in {"pending", "failed"}
         THEN <<k>> \o select_pending_or_failed(jobs, k + 1)
         ELSE select_pending_or_failed(jobs, k + 1)

\* a queue that serves the newest pending job first
RECURSIVE select_pending_newest_first(_, _)
select_pending_newest_first(jobs, k) ==
    IF k > Len(jobs) THEN <<>>
    ELSE IF jobs[k].status = "pending"
         THEN select_pending_newest_first(jobs, k + 1) \o <<k>>
         ELSE select_pending_newest_first(jobs, k + 1)

\* [j for j in all_jobs if j["status"] == "pending"], as indices
RECURSIVE select_pending(_, _)
select_pending(jobs, k) ==
    IF k > Len(jobs) THEN <<>>
    ELSE IF jobs[k].status = "pending"
         THEN <<k>> \o select_pending(jobs, k + 1)
         ELSE select_pending(jobs, k + 1)

\* a filter that takes every device with some free memory
RECURSIVE any_free_gpus(_)
any_free_gpus(d) ==
    IF d = <<>> THEN <<>>
    ELSE IF Head(d)[2] > 0
         THEN <<Head(d)>> \o any_free_gpus(Tail(d))
         ELSE any_free_gpus(Tail(d))

\* the devices of the snapshot with mem >= min_free_mem_mb, in dict order
RECURSIVE suitable_gpus(_)
suitable_gpus(d) ==
    IF d = <<>> THEN <<>>
    ELSE IF Head(d)[2] >= min_free_mem_mb
         THEN <<Head(d)>> \o suitable_gpus(Tail(d))
         ELSE suitable_gpus(Tail(d))

\* a sort that puts an element before the elements with an equal key
RECURSIVE insert_desc_before_equal(_, _)
insert_desc_before_equal(sorted, x) ==
    IF sorted = <<>> THEN <<x>>
    ELSE IF Head(sorted)[2] > x[2]
         THEN <<Head(sorted)>> \o insert_desc_before_equal(Tail(sorted), x)
         ELSE <<x>> \o sorted

\* list.sort(key=lambda x: x[1], reverse=True): stable, equal keys keep
\* their order
RECURSIVE insert_desc(_, _)
insert_desc(sorted, x) ==
    IF sorted = <<>> THEN <<x>>
    ELSE IF Head(sorted)[2] >= x[2]
         THEN <<Head(sorted)>> \o insert_desc(Tail(sorted), x)
         ELSE <<x>> \o sorted

RECURSIVE sort_desc(_, _)
sort_desc(s, sorted) ==
    IF s = <<>> THEN sorted
    ELSE sort_desc(Tail(s), insert_desc(sorted, Head(s)))

\* a choice that forgets to sort: the first suitable device
pick_first(suitable) == suitable[1]

\* suitable_gpus.sort(...); best_gpu, best_gpu_mem = suitable_gpus[0]
pick_best(suitable) == sort_desc(suitable, <<>>)[1]

\* a dispatch_job that does not record the log file
dispatch_job_without_log(job, gpu_id, pid, t) ==
    [job EXCEPT !.gpu_id = gpu_id, !.start_time = t, !.pid = pid,
                !.status = "running"]

\* the assignments at the end of dispatch_job
dispatch_job(job, gpu_id, pid, t) ==
    [job EXCEPT !.gpu_id = gpu_id, !.log_file = t, !.start_time = t,
                !.pid = pid, !.status = "running"]

\* all_jobs.index(job): the first element equal to job
index(jobs, job) == CHOOSE k \in 1..Len(jobs) :
    jobs[k] = job /\ \A m \in 1..(k - 1) : jobs[m] # job

\* a pass that leaves the rewrite for the end of the pass
persist_later(lines, jobs) == lines

\* rewrite_jobs_file(jobs_file, all_jobs) inside the loop over pending_jobs
persist_assignment(lines, jobs) == rewrite_jobs_file(lines, jobs)

\* a pass that forgets the reservation
reserve_nothing(d, gid) == d

\* free_mem_dict[best_gpu] -= config["min_free_mem_mb"]
reserve(d, gid) == dict_set(d, gid, d[dict_get(d, gid)][2] - min_free_mem_mb)

(***************************************************************************)
(* print_status                                                            *)
(***************************************************************************)
\* status.capitalize()
capitalize(status) ==
    CASE status = "pending"   -> "Pending"
      [] status = "completed" -> "Completed"
      [] status = "failed"    -> "Failed"
      [] status = "running"   -> "Running"
      [] OTHER                -> status

\* the icon of a status; "[v]" and "[>]" stand for the check mark and the
\* arrow of the source
icon_of(status) ==
    CASE status = "completed" -> "[v]"
      [] status = "running"   -> "[>]"
      [] status = "failed"    -> "[!]"
      [] OTHER                -> "[ ]"

\* the line print_status prints for one job, as the tuple of its parts
status_line(job) ==
    <<icon_of(job.status), job.command,
      IF job.gpu_id # None THEN <<"GPU", job.gpu_id>> ELSE <<"GPU N/A">>,
      IF job.status = "running" THEN <<"Running (PID", job.pid>>
      ELSE <<capitalize(job.status)>> >>

\* a status that asks the OS whether a running job is still there
print_status_live(jobs) ==
    [k \in 1..Len(jobs) |->
        IF jobs[k].status = "running" /\ ~is_process_running(jobs[k].pid, procs)
        THEN status_line([jobs[k] EXCEPT !.status = "failed"])
        ELSE status_line(jobs[k])]

\* the loop of print_status over the jobs it loaded
print_status(jobs) == [k \in 1..Len(jobs) |-> status_line(jobs[k])]

(***************************************************************************)
(* Initial states                                                          *)
(***************************************************************************)
Job(cmd, status, pid, gpu, t) ==
    [command |-> cmd, status |-> status, pid |-> pid, gpu_id |-> gpu,
     start_time |-> t, log_file |-> t]

\* ledgers left by an earlier session whose only job ran as pid 1
InitLedgers ==
    { <<>>,
      <<json_dumps(Job("a", "running", 1, 0, 0))>>,
      <<JunkLine, json_dumps(Job("a", "running", 1, 0, 0)),
        json_dumps(new_job("b"))>>,
      <<json_dumps(Job("b", "completed", 1, 0, 0)), JunkLine,
        json_dumps(new_job("a"))>>,
      <<json_dumps(Job("a", "running", None, 0, 0))>> }

InitCommandFiles ==
    { [exists |-> FALSE, lines |-> <<>>],
      [exists |-> TRUE, lines |-> <<"a", "b">>],
      [exists |-> TRUE, lines |-> <<"b", " a", " ", "b">>] }

InitGpuIds == { <<None>>, <<1, 0>>, <<2, 0>> }

\* status_seen before the first "status" command
NeverRead == <<<<"unread">>>>

NoReply == [g \in 0..(device_count - 1) |-> NVMLError]

Init ==
    /\ disk \in InitLedgers
    /\ commands_file \in InitCommandFiles
    /\ gpu_ids \in InitGpuIds
    /\ \E st \in {"alive", "gone"} :
         procs = <<[command |-> "a", gpu |-> 0, state |-> st, code |-> None,
                    child |-> FALSE]>>
    /\ now = 0
    /\ pc = "down"
    /\ all_jobs = <<>>
    /\ new_commands = <<>>
    /\ pending_jobs = <<>>
    /\ job_i = 0
    /\ free_mem_dict = <<>>
    /\ nvml = NoReply
    /\ best_gpu = None
    /\ process_pid = None
    /\ assigned_any_job = FALSE
    /\ stdout = <<>>
    /\ status_seen = NeverRead
    /\ pc2 = "down"
    /\ all_jobs2 = <<>>
    /\ pending_jobs2 = <<>>
    /\ job_i2 = 0
    /\ free_mem_dict2 = <<>>
    /\ best_gpu2 = None
    /\ process_pid2 = None
    /\ children2 = {}

config == <<commands_file, gpu_ids>>
\* the state of the second run_cudaq
second == <<pc2, all_jobs2, pending_jobs2, job_i2, free_mem_dict2, best_gpu2,
            process_pid2, children2>>
\* the variables no step of the first run_cudaq reads or writes
outside == <<stdout, status_seen, second>>
loop_locals == <<pending_jobs, job_i, free_mem_dict, nvml, best_gpu,
                 process_pid, assigned_any_job>>

(***************************************************************************)
(* Actions of the scheduler                                                *)
(***************************************************************************)
\* run_cudaq up to the loop over new_commands
Startup ==
    /\ pc = "down"
    /\ now < MaxTime
    /\ now' = now + 1
    /\ all_jobs' = startup_reconcile(load_jobs(disk), procs)
    /\ disk' = rewrite_jobs_file(disk, all_jobs')
    /\ new_commands' = IF commands_file.exists
                       THEN read_commands(commands_file.lines) ELSE <<>>
    /\ pc' = "ingest"
    /\ UNCHANGED <<outside, config, procs, loop_locals>>

\* one iteration of "for cmd in new_commands"
IngestStep ==
    /\ pc = "ingest"
    /\ new_commands # <<>>
    /\ LET cmd == Head(new_commands) IN
         /\ all_jobs' = ingest_one(all_jobs, cmd)
         /\ disk' = IF found(all_jobs, cmd) THEN disk
                    ELSE save_job(disk, new_job(cmd))
    /\ new_commands' = Tail(new_commands)
    /\ UNCHANGED <<outside, config, procs, now, pc, loop_locals>>

\* the loop over new_commands is over; init_pynvml()
IngestDone ==
    /\ pc = "ingest"
    /\ new_commands = <<>>
    /\ pc' = "reload"
    /\ UNCHANGED <<outside, disk, config, procs, now, all_jobs, new_commands,
                   loop_locals>>

\* top of "while True" down to the check for pending jobs
Reconcile ==
    /\ pc = "reload"
    /\ LET loaded == load_jobs(disk)
           jobs == cycle_reconcile(loaded, procs)
           changed == jobs # loaded
       IN /\ all_jobs' = jobs
          /\ disk' = IF changed THEN rewrite_jobs_file(disk, jobs) ELSE disk
          /\ pending_jobs' = select_pending(jobs, 1)
          /\ pc' = IF pending_jobs' = <<>> THEN "sleep" ELSE "snapshot"
    /\ UNCHANGED <<outside, config, procs, now, new_commands, job_i, free_mem_dict,
                   nvml, best_gpu, process_pid, assigned_any_job>>

\* get_all_gpus_free_mem_mb and the check for an empty result
Snapshot ==
    /\ pc = "snapshot"
    /\ \E reply \in [0..(device_count - 1) -> MemReadings \cup {NVMLError}] :
         /\ \A g \in 0..(device_count - 1) :
              g \notin queried(gpu_ids) => reply[g] = NVMLError
         /\ nvml' = reply
         /\ free_mem_dict' = get_all_gpus_free_mem_mb(gpu_ids, reply)
    /\ assigned_any_job' = FALSE
    /\ job_i' = 1
    /\ pc' = IF free_mem_dict' = <<>> THEN "wait" ELSE "assign"
    /\ UNCHANGED <<outside, disk, config, procs, now, all_jobs, new_commands,
                   pending_jobs, best_gpu, process_pid>>

\* "if not suitable_gpus: break"
AssignBreak ==
    /\ pc = "assign"
    /\ suitable_gpus(free_mem_dict) = <<>>
    /\ pc' = "wait"
    /\ UNCHANGED <<outside, disk, config, procs, now, all_jobs, new_commands,
                   loop_locals>>

\* the choice of best_gpu and dispatch_job up to the end of Popen()
AssignLaunch ==
    /\ pc = "assign"
    /\ suitable_gpus(free_mem_dict) # <<>>
    /\ Len(procs) < MaxProcs
    /\ best_gpu' = pick_best(suitable_gpus(free_mem_dict))[1]
    /\ procs' = Popen(procs, all_jobs[pending_jobs[job_i]].command, best_gpu')
    /\ process_pid' = Len(procs')
    /\ pc' = "persist"
    /\ UNCHANGED <<outside, disk, config, now, all_jobs, new_commands, pending_jobs,
                   job_i, free_mem_dict, nvml, assigned_any_job>>

\* a dispatch_job that returns only when the command has exited
AssignPersistWaits ==
    /\ pc = "persist"
    /\ procs[process_pid].state # "alive"
    /\ LET j == pending_jobs[job_i]
           updated_job == dispatch_job(all_jobs[j], best_gpu, process_pid, now)
           mutated == [all_jobs EXCEPT ![j] = updated_job]
           idx == index(mutated, updated_job)
       IN /\ all_jobs' = [mutated EXCEPT ![idx] = updated_job]
          /\ disk' = persist_assignment(disk, all_jobs')
    /\ procs' = popen_del(procs, process_pid)
    /\ free_mem_dict' = reserve(free_mem_dict, best_gpu)
    /\ assigned_any_job' = TRUE
    /\ job_i' = job_i + 1
    /\ pc' = IF job_i' > Len(pending_jobs) THEN "wait" ELSE "assign"
    /\ best_gpu' = None
    /\ process_pid' = None
    /\ UNCHANGED <<outside, config, now, new_commands, pending_jobs, nvml>>

\* the rest of dispatch_job, the rewrite of the ledger and the reservation
AssignPersist ==
    /\ pc = "persist"
    /\ LET j == pending_jobs[job_i]
           updated_job == dispatch_job(all_jobs[j], best_gpu, process_pid, now)
           mutated == [all_jobs EXCEPT ![j] = updated_job]
           idx == index(mutated, updated_job)
       IN /\ all_jobs' = [mutated EXCEPT ![idx] = updated_job]
          /\ disk' = persist_assignment(disk, all_jobs')
    /\ procs' = popen_del(procs, process_pid)
    /\ free_mem_dict' = reserve(free_mem_dict, best_gpu)
    /\ assigned_any_job' = TRUE
    /\ job_i' = job_i + 1
    /\ pc' = IF job_i' > Len(pending_jobs) THEN "wait" ELSE "assign"
    /\ best_gpu' = None
    /\ process_pid' = None
    /\ UNCHANGED <<outside, config, now, new_commands, pending_jobs, nvml>>

\* the end of the loop over pending_jobs: "if not assigned_any_job" and
\* the call of time.sleep; the locals of the cycle are dead from here on
EndPass ==
    /\ pc = "wait"
    /\ pc' = "sleep"
    /\ pending_jobs' = <<>>
    /\ job_i' = 0
    /\ free_mem_dict' = <<>>
    /\ nvml' = NoReply
    /\ assigned_any_job' = FALSE
    /\ UNCHANGED <<outside, disk, config, procs, now, all_jobs, new_commands,
                   best_gpu, process_pid>>

\* time.sleep(config["poll_interval"]) returns: back to the top of the loop
Sleep ==
    /\ pc = "sleep"
    /\ now < MaxTime
    /\ now' = now + 1
    /\ pc' = "reload"
    /\ UNCHANGED <<outside, disk, config, procs, all_jobs, new_commands,
                   loop_locals>>

\* time.sleep(poll_interval) once the clock of the model has reached its
\* bound: the loop goes on, the clock stays
SleepAtBound ==
    /\ pc = "sleep"
    /\ now = MaxTime
    /\ pc' = "reload"
    /\ UNCHANGED <<outside, disk, config, procs, now, all_jobs, new_commands,
                   loop_locals>>

(***************************************************************************)
(* Actions of the environment                                              *)
(***************************************************************************)
\* the scheduler is stopped from outside, between two of its steps
Crash ==
    /\ pc # "down"
    /\ pc' = "down"
    /\ procs' = orphan(procs)
    /\ all_jobs' = <<>>
    /\ new_commands' = <<>>
    /\ pending_jobs' = <<>>
    /\ job_i' = 0
    /\ free_mem_dict' = <<>>
    /\ nvml' = NoReply
    /\ best_gpu' = None
    /\ process_pid' = None
    /\ assigned_any_job' = FALSE
    /\ UNCHANGED <<outside, disk, config, now>>

\* what a file can hold when the process is killed inside rewrite_jobs_file:
\* open(.., "w") has emptied it and only a part of the new text has reached
\* it, up to the end of a line or up to the middle of one
torn(lines) ==
    {SubSeq(lines, 1, n) : n \in 0..(Len(lines) - 1)}
      \cup {Append(SubSeq(lines, 1, n), JunkLine) : n \in 0..(Len(lines) - 1)}

\* the scheduler is killed inside the rewrite that follows dispatch_job
CrashInRewrite ==
    /\ pc = "persist"
    /\ LET j == pending_jobs[job_i]
           updated_job == dispatch_job(all_jobs[j], best_gpu, process_pid, now)
           mutated == [all_jobs EXCEPT ![j] = updated_job]
           idx == index(mutated, updated_job)
       IN disk' \in torn(rewrite_jobs_file(disk,
                                           [mutated EXCEPT ![idx] = updated_job]))
    /\ pc' = "down"
    /\ procs' = orphan(procs)
    /\ all_jobs' = <<>>
    /\ new_commands' = <<>>
    /\ pending_jobs' = <<>>
    /\ job_i' = 0
    /\ free_mem_dict' = <<>>
    /\ nvml' = NoReply
    /\ best_gpu' = None
    /\ process_pid' = None
    /\ assigned_any_job' = FALSE
    /\ UNCHANGED <<outside, config, now>>

\* a launched command exits
ProcExit ==
    \E p \in DOMAIN procs \ children2, c \in ExitCodes :
        /\ procs[p].state = "alive"
        /\ procs' = IF procs[p].child
                    THEN [procs EXCEPT ![p].state = "zombie", ![p].code = c]
                    ELSE [procs EXCEPT ![p].state = "gone"]
        /\ UNCHANGED <<outside, disk, config, now, pc, all_jobs, new_commands,
                       loop_locals>>

\* "cudaq.py status", run by the user at any moment
Status ==
    /\ stdout' = print_status(load_jobs(disk))
    /\ status_seen' = disk
    /\ UNCHANGED <<disk, config, procs, now, pc, all_jobs, new_commands,
                   loop_locals, second>>

(***************************************************************************)
(* A second run_cudaq on the same ledger file.  It runs the same code; its  *)
(* reload is taken in two steps, the read of the file and the              *)
(* reconciliation with its rewrite, and its startup in one.                *)
(***************************************************************************)
\* the process table as the second scheduler sees it: its children are the
\* processes it started
view2(table) == [p \in DOMAIN table |-> [table[p] EXCEPT !.child = (p \in children2)]]

\* subprocess.Popen(...) in the second scheduler: _cleanup() waits for its
\* own exited children; the new process is no child of the first scheduler
Popen2(table, command, gpu_id) ==
    Append([p \in DOMAIN table |->
               [popen_cleanup(view2(table))[p] EXCEPT !.child = table[p].child]],
           [command |-> command, gpu |-> gpu_id, state |-> "alive",
            code |-> None, child |-> FALSE])

\* run_cudaq up to the dispatch loop
Startup2 ==
    /\ pc2 = "down"
    /\ LET jobs == startup_reconcile(load_jobs(disk), procs)
           cmds == IF commands_file.exists
                   THEN read_commands(commands_file.lines) ELSE <<>>
       IN /\ all_jobs2' = ingest_all(jobs, cmds)
          /\ disk' = rewrite_jobs_file(disk, all_jobs2')
    /\ pc2' = "reload"
    /\ UNCHANGED <<stdout, status_seen, config, procs, now, pc, all_jobs,
                   new_commands, loop_locals, pending_jobs2, job_i2,
                   free_mem_dict2, best_gpu2, process_pid2, children2>>

\* all_jobs = load_jobs(jobs_file) at the top of the loop
Load2 ==
    /\ pc2 = "reload"
    /\ all_jobs2' = load_jobs(disk)
    /\ pc2' = "reconcile"
    /\ UNCHANGED <<stdout, status_seen, disk, config, procs, now, pc, all_jobs,
                   new_commands, loop_locals, pending_jobs2, job_i2,
                   free_mem_dict2, best_gpu2, process_pid2, children2>>

\* the "Update status of running jobs" loop, its rewrite, and pending_jobs
Reconcile2 ==
    /\ pc2 = "reconcile"
    /\ LET jobs == cycle_reconcile(all_jobs2, view2(procs))
           changed == jobs # all_jobs2
       IN /\ all_jobs2' = jobs
          /\ disk' = IF changed THEN rewrite_jobs_file(disk, jobs) ELSE disk
          /\ pending_jobs2' = select_pending(jobs, 1)
          /\ pc2' = IF pending_jobs2' = <<>> THEN "reload" ELSE "snapshot"
    /\ UNCHANGED <<stdout, status_seen, config, procs, now, pc, all_jobs,
                   new_commands, loop_locals, job_i2, free_mem_dict2,
                   best_gpu2, process_pid2, children2>>

\* get_all_gpus_free_mem_mb and the check for an empty result
Snapshot2 ==
    /\ pc2 = "snapshot"
    /\ \E reply \in [0..(device_count - 1) -> MemReadings \cup {NVMLError}] :
         /\ \A g \in 0..(device_count - 1) :
              g \notin queried(gpu_ids) => reply[g] = NVMLError
         /\ free_mem_dict2' = get_all_gpus_free_mem_mb(gpu_ids, reply)
    /\ job_i2' = 1
    /\ pc2' = IF free_mem_dict2' = <<>> THEN "reload" ELSE "assign"
    /\ UNCHANGED <<stdout, status_seen, disk, config, procs, now, pc, all_jobs,
                   new_commands, loop_locals, all_jobs2, pending_jobs2,
                   best_gpu2, process_pid2, children2>>

\* "if not suitable_gpus: break", then the sleep
AssignBreak2 ==
    /\ pc2 = "assign"
    /\ suitable_gpus(free_mem_dict2) = <<>>
    /\ pc2' = "reload"
    /\ pending_jobs2' = <<>>
    /\ job_i2' = 0
    /\ free_mem_dict2' = <<>>
    /\ UNCHANGED <<stdout, status_seen, disk, config, procs, now, pc, all_jobs,
                   new_commands, loop_locals, all_jobs2, best_gpu2,
                   process_pid2, children2>>

\* the choice of best_gpu and dispatch_job up to the end of Popen()
AssignLaunch2 ==
    /\ pc2 = "assign"
    /\ suitable_gpus(free_mem_dict2) # <<>>
    /\ Len(procs) < MaxProcs
    /\ best_gpu2' = pick_best(suitable_gpus(free_mem_dict2))[1]
    /\ procs' = Popen2(procs, all_jobs2[pending_jobs2[job_i2]].command,
                       best_gpu2')
    /\ process_pid2' = Len(procs')
    /\ children2' = children2 \cup {process_pid2'}
    /\ pc2' = "persist"
    /\ UNCHANGED <<stdout, status_seen, disk, config, now, pc, all_jobs,
                   new_commands, loop_locals, all_jobs2, pending_jobs2, job_i2,
                   free_mem_dict2>>

\* the rest of dispatch_job, the rewrite of the ledger and the reservation;
\* after the last pending job, the sleep
AssignPersist2 ==
    /\ pc2 = "persist"
    /\ LET j == pending_jobs2[job_i2]
           updated_job == dispatch_job(all_jobs2[j], best_gpu2, process_pid2,
                                       now)
           mutated == [all_jobs2 EXCEPT ![j] = updated_job]
           idx == index(mutated, updated_job)
       IN /\ all_jobs2' = [mutated EXCEPT ![idx] = updated_job]
          /\ disk' = persist_assignment(disk, all_jobs2')
    /\ procs' = popen_del(procs, process_pid2)
    /\ best_gpu2' = None
    /\ process_pid2' = None
    /\ IF job_i2 + 1 > Len(pending_jobs2)
       THEN /\ pc2' = "reload"
            /\ pending_jobs2' = <<>>
            /\ job_i2' = 0
            /\ free_mem_dict2' = <<>>
       ELSE /\ pc2' = "assign"
            /\ job_i2' = job_i2 + 1
            /\ free_mem_dict2' = reserve(free_mem_dict2, best_gpu2)
            /\ UNCHANGED pending_jobs2
    /\ UNCHANGED <<stdout, status_seen, config, now, pc, all_jobs,
                   new_commands, loop_locals, children2>>

\* a command launched by the second scheduler exits
ProcExit2 ==
    \E p \in children2, c \in ExitCodes :
        /\ procs[p].state = "alive"
        /\ procs' = [procs EXCEPT ![p].state = "zombie", ![p].code = c]
        /\ UNCHANGED <<outside, disk, config, now, pc, all_jobs, new_commands,
                       loop_locals>>

Next ==
    \/ Startup
    \/ IngestStep
    \/ IngestDone
    \/ Reconcile
    \/ Snapshot
    \/ AssignBreak
    \/ AssignLaunch
    \/ AssignPersist
    \/ EndPass
    \/ Sleep
    \/ Crash
    \/ ProcExit

Spec == Init /\ [][Next]_vars

\* the scheduler with a user who runs the status command; one configuration
InitStatus ==
    /\ Init
    /\ gpu_ids = <<None>>
    /\ commands_file = [exists |-> TRUE, lines |-> <<"a", "b">>]

NextStatus == Next \/ Status

SpecStatus == InitStatus /\ [][NextStatus]_vars

\* a scheduler that is started once and never stopped: every step of
\* run_cudaq that can be taken is taken in the end, a launched command may
\* run forever; one configuration
InitLive ==
    /\ Init
    /\ gpu_ids = <<None>>
    /\ commands_file = [exists |-> TRUE, lines |-> <<"a", "b">>]

SchedulerStep ==
    \/ Startup
    \/ IngestStep
    \/ IngestDone
    \/ Reconcile
    \/ Snapshot
    \/ AssignBreak
    \/ AssignLaunch
    \/ AssignPersist
    \/ EndPass
    \/ Sleep
    \/ SleepAtBound

NextLive == SchedulerStep \/ ProcExit

SpecLive == InitLive /\ [][NextLive]_vars /\ WF_vars(SchedulerStep)

\* two schedulers on one ledger file, neither of them stopped; one
\* configuration, in which one device answers, and one ledger
InitTwo ==
    /\ Init
    /\ gpu_ids = <<2, 0>>
    /\ commands_file = [exists |-> TRUE, lines |-> <<"a", "b">>]
    /\ disk = <<JunkLine, json_dumps(Job("a", "running", 1, 0, 0)),
                json_dumps(new_job("b"))>>

NextTwo ==
    \/ SchedulerStep
    \/ ProcExit
    \/ Startup2
    \/ Load2
    \/ Reconcile2
    \/ Snapshot2
    \/ AssignBreak2
    \/ AssignLaunch2
    \/ AssignPersist2
    \/ ProcExit2

SpecTwo == InitTwo /\ [][NextTwo]_vars

\* the scheduler when a kill can also fall inside the rewrite of an
\* assignment; one configuration
InitTorn ==
    /\ Init
    /\ gpu_ids = <<None>>
    /\ commands_file = [exists |-> TRUE, lines |-> <<"a", "b">>]

NextTorn == Next \/ CrashInRewrite

SpecTorn == InitTorn /\ [][NextTorn]_vars

(***************************************************************************)
(* Properties                                                              *)
(***************************************************************************)
\* the records a reader of the ledger file finds: the lines that are JSON
IsRecord(line) == line[1] = "json"
Records(lines) ==
    LET parsed == SelectSeq(lines, IsRecord)
    IN [k \in 1..Len(parsed) |-> parsed[k][2]]
Ledger == Records(disk)
NonTerminal(job) == job.status \in {"pending", "running"}
Terminal(job) == job.status \in {"completed", "failed"}
Source == IF commands_file.exists
          THEN read_commands(commands_file.lines) ELSE <<>>
SourceSet == {Source[k] : k \in 1..Len(Source)}
HasCommand(jobs, cmd) == \E k \in 1..Len(jobs) : jobs[k].command = cmd
\* the process handle denotes a process that is alive
Alive(pid) == pid \in DOMAIN procs /\ procs[pid].state = "alive"

\* C1: whatever startups (reconciliation, then ingest of the command source),
\* dispatch cycles and stops have happened, the ledger file never holds two
\* records with the same command text that are both pending or running.
C1_NoTwoNonTerminalWithSameCommand ==
    \A k, m \in 1..Len(Ledger) :
        (k < m /\ Ledger[k].command = Ledger[m].command)
            => ~(NonTerminal(Ledger[k]) /\ NonTerminal(Ledger[m]))

\* C1 witness: a later startup has ingested the source again while a job of
\* that source, dispatched by an earlier session, is still running.
C1_Witness ==
    /\ pc = "ingest"
    /\ new_commands = <<>>
    /\ Len(Source) > 0
    /\ \E k \in 1..Len(Ledger) :
         /\ Ledger[k].status = "running"
         /\ Ledger[k].start_time >= 1
         /\ Ledger[k].command \in SourceSet

\* the step is one iteration of the ingest loop
IsIngestStep == pc = "ingest" /\ pc' = "ingest" /\ new_commands' # new_commands

\* C2: an ingest iteration whose candidate equals the command of any record
\* of the ledger, whatever its status, changes nothing; any other candidate
\* appends exactly one pending record at the end of the ledger, on disk as
\* in memory; and once ingest is over, ingesting the same source again
\* gives the same ledger.
C2_IngestDedupIdempotent ==
    [][ /\ IsIngestStep =>
            LET cmd == Head(new_commands) IN
            IF HasCommand(Ledger, cmd)
            THEN disk' = disk /\ all_jobs' = all_jobs
            ELSE /\ disk' = Append(disk, json_dumps(new_job(cmd)))
                 /\ all_jobs' = Append(all_jobs, new_job(cmd))
                 /\ Records(disk') = Append(Ledger, new_job(cmd))
        /\ (pc = "ingest" /\ pc' = "reload") =>
            /\ disk' = disk
            /\ \A c \in SourceSet : HasCommand(Ledger, c)
            /\ ingest_all(Ledger, Source) = Ledger
      ]_vars

\* C2 witness: ingest is over; it skipped a candidate equal to the command of
\* a record that is completed or failed and appended another candidate.
C2_Witness ==
    /\ pc = "ingest"
    /\ new_commands = <<>>
    /\ Len(all_jobs) >= 2
    /\ disk = rewrite_jobs_file(disk, all_jobs)
    /\ \E k \in 1..(Len(all_jobs) - 1) :
         Terminal(all_jobs[k]) /\ all_jobs[k].command \in SourceSet
    /\ \E c \in SourceSet : all_jobs[Len(all_jobs)] = new_job(c)

\* the step is the startup of run_cudaq
IsStartupStep == pc = "down" /\ pc' = "ingest"

\* C3: startup reconciliation sets to failed each running record whose
\* process handle denotes no live process, and changes no other record and
\* no other field; the records keep their number and their order.
C3_StartupReconcileFrame ==
    [][ IsStartupStep =>
          /\ Len(all_jobs') = Len(Ledger)
          /\ disk' = [k \in 1..Len(Ledger) |-> json_dumps(all_jobs'[k])]
          /\ \A k \in 1..Len(Ledger) :
               all_jobs'[k] =
                 IF Ledger[k].status = "running" /\ ~Alive(Ledger[k].pid)
                 THEN [Ledger[k] EXCEPT !.status = "failed"]
                 ELSE Ledger[k]
      ]_vars

\* C3 witness: the first startup has failed a running record whose process
\* is gone and the ledger holds another record, which is not failed.
C3_Witness ==
    /\ pc = "ingest"
    /\ now = 1
    /\ new_commands = Source
    /\ \E k, m \in 1..Len(all_jobs) :
         /\ all_jobs[k].status = "failed"
         /\ ~Alive(all_jobs[k].pid)
         /\ all_jobs[m].status # "failed"
    /\ Ledger = all_jobs

\* C3 second witness: a startup has left alone a running record whose
\* process is alive.
C3_WitnessLive ==
    /\ pc = "ingest"
    /\ \E k \in 1..Len(all_jobs) :
         all_jobs[k].status = "running" /\ Alive(all_jobs[k].pid)

\* the value free_mem_dict holds for a device of the snapshot
Estimate(d, gid) == d[dict_get(d, gid)][2]
\* the snapshot of the spec's example: device A is 0, device B is 1
ExampleReply == [g \in 0..(device_count - 1) |-> IF g = 0 THEN 8000 ELSE 10000]

\* C4: the device a job is launched on is in the allow-list, answered the
\* query of this cycle, is in the snapshot with a current estimate of at
\* least the threshold, and no device of the snapshot has a larger current
\* estimate; from {0: 8000, 1: 10000} the first job goes to device 1.
C4_DispatchOnBestQualifyingDevice ==
    pc = "persist" =>
        /\ best_gpu \in queried(gpu_ids)
        /\ best_gpu \in 0..(device_count - 1)
        /\ nvml[best_gpu] # NVMLError
        /\ best_gpu \in dict_keys(free_mem_dict)
        /\ Estimate(free_mem_dict, best_gpu) >= min_free_mem_mb
        /\ \A g \in dict_keys(free_mem_dict) :
             Estimate(free_mem_dict, g) <= Estimate(free_mem_dict, best_gpu)
        /\ procs[process_pid].gpu = best_gpu
        /\ (job_i = 1 /\ nvml = ExampleReply /\ queried(gpu_ids) = {0, 1})
             => best_gpu = 1

\* C4 witness: the single pending job of the cycle was launched on device 1
\* from the snapshot {0: 8000, 1: 10000}, in dict order 0 then 1.
C4_Witness ==
    /\ pc = "persist"
    /\ free_mem_dict = <<<<0, 8000>>, <<1, 10000>>>>
    /\ Len(pending_jobs) = 1
    /\ best_gpu = 1

\* C4 second witness: a device whose query failed was passed over.
C4_WitnessFailedQuery ==
    /\ pc = "persist"
    /\ \E g \in queried(gpu_ids) \cap (0..(device_count - 1)) :
         nvml[g] = NVMLError

\* the jobs the ledger file shows as dispatched to a device at the current
\* time stamp, that is, in the current cycle
AssignedAt(jobs, gid, t) ==
    Cardinality({k \in 1..Len(jobs) :
        /\ jobs[k].status = "running"
        /\ jobs[k].gpu_id = gid
        /\ jobs[k].start_time = t})
AssignedThisCycle(gid) == AssignedAt(Ledger, gid, now)

\* the step records an assignment
IsPersistStep == pc = "persist" /\ pc' \in {"assign", "wait"}

\* C5: recording an assignment lowers the estimate of the chosen device by
\* exactly the threshold and leaves the other estimates alone; throughout a
\* pass each estimate is the reading minus the threshold times the jobs
\* assigned to the device in this cycle, so a device is chosen only while
\* that difference is at least the threshold; from {0: 8000, 1: 10000}
\* device 1 is left at 4000 and the second job does not go to it.
C5_ReservationPerAssignment ==
    [][ /\ IsPersistStep =>
            /\ Len(free_mem_dict') = Len(free_mem_dict)
            /\ \A k \in 1..Len(free_mem_dict) :
                 /\ free_mem_dict'[k][1] = free_mem_dict[k][1]
                 /\ free_mem_dict'[k][2] =
                      IF free_mem_dict[k][1] = best_gpu
                      THEN free_mem_dict[k][2] - min_free_mem_mb
                      ELSE free_mem_dict[k][2]
        /\ (pc' \in {"assign", "persist", "wait"} /\ pc' # pc) =>
            LET after == Records(disk') IN
            /\ \A g \in dict_keys(free_mem_dict') :
                 Estimate(free_mem_dict', g) =
                     nvml'[g] - min_free_mem_mb * AssignedAt(after, g, now')
            /\ pc' = "persist" =>
                 /\ nvml'[best_gpu']
                      - min_free_mem_mb * AssignedAt(after, best_gpu', now')
                      >= min_free_mem_mb
                 /\ (nvml' = ExampleReply /\ job_i' = 2) => best_gpu' # 1
      ]_vars

\* C5 witness: from {0: 8000, 1: 10000} the first job went to device 1,
\* which is left at 4000, and the second job was launched on device 0.
C5_Witness ==
    /\ pc = "persist"
    /\ job_i = 2
    /\ nvml = ExampleReply
    /\ free_mem_dict = <<<<0, 8000>>, <<1, 4000>>>>
    /\ best_gpu = 0

\* C5 second witness: a device that reported twice the threshold was chosen
\* for a second job of the same cycle.
C5_WitnessSameDevice ==
    /\ pc = "persist"
    /\ job_i = 2
    /\ AssignedThisCycle(best_gpu) = 1

\* no device of a snapshot has free memory of at least the threshold
NoneQualifies(d) == \A k \in 1..Len(d) : d[k][2] < min_free_mem_mb
\* no device that answered the query of this cycle reported free memory of
\* at least the threshold
NoneReported ==
    \A g \in queried(gpu_ids) \cap (0..(device_count - 1)) :
        nvml[g] = NVMLError \/ nvml[g] < min_free_mem_mb
Statuses_of(jobs) == [k \in 1..Len(jobs) |-> jobs[k].status]

\* C6: in a cycle whose snapshot is empty or has no device with free memory
\* of at least the threshold, the pass ends without an assignment: the
\* scheduler goes to its sleep, the ledger file and the status of every job
\* stay as they are and no process is created; the sleep itself changes
\* nothing but the clock.
C6_NoQualifyingDeviceNoEffect ==
    [][ /\ (pc = "snapshot" /\ pc' \notin {"snapshot", "down"}
              /\ NoneQualifies(free_mem_dict')) =>
            /\ pc' \in {"wait", "assign"}
            /\ disk' = disk /\ procs' = procs /\ all_jobs' = all_jobs
        /\ (pc = "assign" /\ pc' \notin {"assign", "down"} /\ NoneReported) =>
            /\ pc' = "wait"
            /\ job_i = 1
            /\ ~assigned_any_job'
            /\ disk' = disk /\ procs' = procs /\ all_jobs' = all_jobs
            /\ \A k \in 1..Len(pending_jobs) :
                 Ledger[pending_jobs[k]].status = "pending"
        /\ (pc \in {"wait", "sleep"} /\ pc' \notin {pc, "down"}) =>
            /\ disk' = disk /\ procs' = procs
            /\ Statuses_of(all_jobs') = Statuses_of(all_jobs)
      ]_vars

\* C6 witness: a second cycle in a row ends with the pass given up: devices
\* answered, none has the threshold free, the pending job is still pending
\* and no job was ever dispatched.
C6_Witness ==
    /\ pc = "wait"
    /\ now = 2
    /\ free_mem_dict # <<>>
    /\ NoneQualifies(free_mem_dict)
    /\ NoneReported
    /\ ~assigned_any_job
    /\ Len(procs) = 1
    /\ Len(pending_jobs) > 0
    /\ \A k \in 1..Len(pending_jobs) : Ledger[pending_jobs[k]].status = "pending"
    /\ \A k \in 1..Len(Ledger) : Ledger[k].start_time < 1

\* C6 second witness: the snapshot is empty while a job is pending.
C6_WitnessEmptySnapshot ==
    /\ pc = "wait"
    /\ free_mem_dict = <<>>
    /\ Len(pending_jobs) > 0

\* C7: when the process of a job of the pass has just been started, the
\* ledger file already shows every earlier job of the pass as running, with
\* the pid and the device of the process started for it, its start time and
\* its log file.
C7_AssignmentPersistedBeforeNextLaunch ==
    pc = "persist" =>
        \A k \in 1..(job_i - 1) :
            /\ pending_jobs[k] \in 1..Len(Ledger)
            /\ LET job == Ledger[pending_jobs[k]] IN
                 /\ job.status = "running"
                 /\ job.command = all_jobs[pending_jobs[k]].command
                 /\ job.pid \in DOMAIN procs
                 /\ job.pid # process_pid
                 /\ procs[job.pid].command = job.command
                 /\ procs[job.pid].gpu = job.gpu_id
                 /\ job.gpu_id \in dict_keys(free_mem_dict)
                 /\ job.start_time = now
                 /\ job.log_file # None

\* C7 witness: the second job of a pass has been started and not yet
\* recorded; the first is on disk as running.
C7_Witness ==
    /\ pc = "persist"
    /\ job_i = 2
    /\ Ledger[pending_jobs[1]].status = "running"
    /\ Ledger[pending_jobs[2]].status = "pending"
    /\ procs[process_pid].state = "alive"

DispatchFields(job) == <<job.gpu_id, job.pid, job.start_time, job.log_file>>

\* C8: from one state of the ledger file to the next a record changes status
\* only from pending to running, which the recording of a dispatch does, or
\* from running to completed or failed, which a reconciliation does; a
\* completed or failed record keeps its status; gpu_id, pid, start_time and
\* log_file change only in the step that makes the record running, and the
\* command never changes.
C8_StatusLifecycle ==
    [][ disk' # disk =>
        LET before == Records(disk)
            after == Records(disk')
        IN /\ Len(after) >= Len(before)
           /\ \A k \in 1..Len(before) :
                LET old == before[k]
                    new == after[k]
                IN /\ new.command = old.command
                   /\ new.status # old.status =>
                        \/ /\ old.status = "pending" /\ new.status = "running"
                           /\ pc = "persist"
                        \/ /\ old.status = "running" /\ Terminal(new)
                           /\ pc \in {"down", "reload"}
                   /\ DispatchFields(new) # DispatchFields(old) =>
                        /\ old.status = "pending" /\ new.status = "running"
                        /\ DispatchFields(old) = <<None, None, None, None>>
                        /\ pc = "persist"
      ]_vars

\* C8 witness: a record dispatched by this scheduler has reached a terminal
\* status while another one it dispatched is running.
C8_Witness ==
    \E k, m \in 1..Len(Ledger) :
        /\ Terminal(Ledger[k]) /\ Ledger[k].start_time >= 1
        /\ Ledger[m].status = "running" /\ Ledger[m].start_time >= 1

\* the step completes one of the writes of the ledger file
IsMutationStep ==
    \/ IsStartupStep
    \/ IsIngestStep /\ all_jobs' # all_jobs
    \/ pc = "reload" /\ pc' \in {"sleep", "snapshot"} /\ disk' # disk
    \/ IsPersistStep

\* C9: after the startup rewrite, each ingest append, the rewrite of a
\* reconciliation and each rewrite of an assignment, the lines of the ledger
\* file are the records of all_jobs, one for one and in the same order; and
\* the file changes in no other step.
C9_DiskEqualsMemoryAfterMutation ==
    [][ /\ IsMutationStep =>
            /\ disk' = [k \in 1..Len(all_jobs') |-> <<"json", all_jobs'[k]>>]
            /\ Records(disk') = all_jobs'
        /\ disk' # disk => IsMutationStep
      ]_vars

\* C9 witness: an assignment has just been rewritten after an ingest
\* appended the record, and file and memory agree.
C9_Witness ==
    /\ pc = "assign"
    /\ job_i = 2
    /\ all_jobs[pending_jobs[1]].status = "running"
    /\ all_jobs[pending_jobs[1]].command \in SourceSet
    /\ disk = [k \in 1..Len(all_jobs) |-> <<"json", all_jobs[k]>>]

\* C10 as claimed, a malformed line counting as a record of the file: the
\* number of lines never decreases and every line keeps its place.
C10_NoLineDeleted ==
    [][ disk' # disk =>
        /\ Len(disk') >= Len(disk)
        /\ \A k \in 1..Len(disk) :
             /\ IsRecord(disk'[k]) = IsRecord(disk[k])
             /\ IsRecord(disk[k]) => disk'[k][2].command = disk[k][2].command
      ]_vars

\* C10 as amended: no well-formed record is deleted.  The number of records
\* that parse never decreases and each keeps its position among them, new
\* records coming at the end; a malformed line is dropped by the next full
\* rewrite.
C10_NoRecordDeleted ==
    [][ disk' # disk =>
        LET before == Records(disk)
            after == Records(disk')
        IN /\ Len(after) >= Len(before)
           /\ \A k \in 1..Len(before) : after[k].command = before[k].command
           /\ Len(disk') < Len(disk) =>
                /\ \E k \in 1..Len(disk) : ~IsRecord(disk[k])
                /\ \A k \in 1..Len(disk') : IsRecord(disk'[k])
      ]_vars

\* C10 witness: the first startup has rewritten a file that held a
\* malformed line between two records; the line is gone and both records
\* are there, in their order.
C10_Witness ==
    /\ pc = "ingest"
    /\ now = 1
    /\ Len(disk) >= 2
    /\ disk[1] = json_dumps(Job("b", "completed", 1, 0, 0))
    /\ disk[2] = json_dumps(new_job("a"))

\* the step is a run of the status command that is visible in the state
IsStatusStep == stdout' # stdout \/ status_seen' # status_seen

\* C11: a run of the status command changes neither the ledger file nor any
\* state of the scheduler or of a job's process, whatever the scheduler is
\* doing; it prints one line per record of the file, in order; and when the
\* file holds what it held at the previous run, it prints what that run
\* printed.
C11_StatusReadOnlyDeterministic ==
    [][ IsStatusStep =>
          /\ UNCHANGED <<disk, config, procs, now, pc, all_jobs, new_commands,
                         loop_locals>>
          /\ status_seen' = disk
          /\ status_seen = disk => stdout' = stdout
          /\ Len(stdout') = Len(Ledger)
          /\ \A k \in 1..Len(Ledger) :
               /\ stdout'[k][2] = Ledger[k].command
               /\ stdout'[k][4][1] =
                    IF Ledger[k].status = "running" THEN "Running (PID"
                    ELSE capitalize(Ledger[k].status)
      ]_vars

\* C11 witness: the status command ran between the start of a job's process
\* and the rewrite that records it, after the process of a job it shows as
\* running had exited.
C11_Witness ==
    /\ pc = "persist"
    /\ status_seen = disk
    /\ \E k \in 1..Len(Ledger) :
         /\ Ledger[k].status = "running"
         /\ ~Alive(Ledger[k].pid)
         /\ stdout[k] = <<"[>]", Ledger[k].command, <<"GPU", Ledger[k].gpu_id>>,
                          <<"Running (PID", Ledger[k].pid>> >>

\* the scheduler stops in the middle of an assignment pass
IsCrashInPass == pc \in {"assign", "persist", "wait"} /\ pc' = "down"

\* C12: when the scheduler stops at any point of an assignment pass, every
\* job it holds as dispatched (running, with the id of its process) is in
\* the ledger file as a record that is not pending and carries that device
\* id and that process id; only the assignment in progress can be missing.
C12_NoDispatchedAssignmentLost ==
    [][ IsCrashInPass =>
          LET after == Records(disk')
          IN \A k \in 1..Len(all_jobs) :
               (all_jobs[k].status = "running" /\ all_jobs[k].pid # None) =>
                 \E j \in 1..Len(after) :
                    /\ after[j].command = all_jobs[k].command
                    /\ after[j].status # "pending"
                    /\ after[j].gpu_id = all_jobs[k].gpu_id
                    /\ after[j].pid = all_jobs[k].pid
      ]_vars

\* the step is the reconciliation of one dispatch cycle
IsReconcileStep == pc = "reload" /\ pc' \in {"sleep", "snapshot"}

\* the exit code the process ended with, None while it runs
exit_code(pid) == IF pid \in DOMAIN procs THEN procs[pid].code ELSE None

\* C13: in the reconciliation of a cycle a running record whose process is
\* still alive stays running, and a running record whose process the
\* liveness check finds gone becomes completed when the process ended with
\* exit code 0 and failed otherwise.
C13_CompletedIffExitCodeZero ==
    [][ IsReconcileStep =>
          LET before == Ledger
              after == Records(disk')
          IN \A k \in 1..Len(before) :
               before[k].status = "running" =>
                 IF Alive(before[k].pid)
                 THEN after[k].status = "running"
                 ELSE ~is_process_running(before[k].pid, procs) =>
                        after[k].status =
                          IF exit_code(before[k].pid) = 0 THEN "completed"
                          ELSE "failed"
      ]_vars

\* record k of the ledger file is running, its process was started by the
\* scheduler that is running now, and that process has exited
ExitedButRunning(k) ==
    /\ k <= Len(Ledger)
    /\ Ledger[k].status = "running"
    /\ Ledger[k].pid \in DOMAIN procs
    /\ procs[Ledger[k].pid].child
    /\ procs[Ledger[k].pid].state # "alive"

\* record k of the ledger file is completed or failed
Settled(k) == k <= Len(Ledger) /\ Terminal(Ledger[k])

\* C14: while the scheduler keeps cycling, a record that is running and
\* whose process, started by this scheduler, has exited is eventually
\* persisted as completed or failed.
C14_ExitedJobEventuallyLeavesRunning ==
    \A k \in 1..2 : ExitedButRunning(k) ~> Settled(k)

\* the pending jobs of the cycle that have been dispatched are exactly the
\* first n of the list, and the list is in ledger order
DispatchedPrefix(jobs, pending, n) ==
    /\ \A i \in 1..Len(pending) :
         jobs[pending[i]].status = "running" <=> i <= n
    /\ \A i, j \in 1..Len(pending) : i < j => pending[i] < pending[j]

\* C15: a rewrite that records an assignment turns one pending record into
\* a running one, and no record before it in the ledger file is pending
\* afterwards; a pass that finds no qualifying device stops without touching
\* the rest of the list; and when a pass is over, the jobs it dispatched are
\* a prefix of the cycle's pending list, which is in ledger order.
C15_StrictFifoDispatch ==
    [][ /\ IsPersistStep =>
             LET before == Ledger
                 after == Records(disk')
             IN \A k \in 1..Len(before) :
                  (before[k].status = "pending" /\ after[k].status # "pending")
                    => \A j \in 1..(k - 1) : after[j].status # "pending"
        /\ (pc = "assign" /\ pc' = "wait") =>
             /\ suitable_gpus(free_mem_dict) = <<>>
             /\ disk' = disk /\ procs' = procs /\ all_jobs' = all_jobs
        /\ (pc \in {"assign", "persist"} /\ pc' = "wait") =>
             DispatchedPrefix(all_jobs', pending_jobs', job_i' - 1)
      ]_vars

\* C15 witness: a pass over two pending jobs has dispatched the first and
\* stopped at the second, which stays pending in the ledger file.
C15_Witness ==
    /\ pc = "wait"
    /\ assigned_any_job
    /\ Len(pending_jobs) = 2
    /\ job_i = 2
    /\ Ledger[pending_jobs[1]].status = "running"
    /\ Ledger[pending_jobs[2]].status = "pending"

\* the positions of the snapshot that hold a qualifying device with the
\* largest estimate
Top(d) ==
    {k \in 1..Len(d) :
        /\ d[k][2] >= min_free_mem_mb
        /\ \A m \in 1..Len(d) : d[m][2] <= d[k][2]}

\* the position of the first occurrence of gid in the allow-list
FirstPos(ids, gid) ==
    CHOOSE k \in 1..Len(ids) : ids[k] = gid /\ \A m \in 1..(k - 1) : ids[m] # gid

Ascending(ids) == \A i, j \in 1..Len(ids) : i < j => ids[i] < ids[j]

\* C16 as stated: the device a job is launched on has the lowest id among
\* the qualifying devices with the largest estimate, for every allow-list.
C16_TieToLowestDeviceId ==
    pc = "persist" =>
        \A k \in Top(free_mem_dict) : best_gpu <= free_mem_dict[k][1]

\* C16: the device a job is launched on is the first, in the order of the
\* snapshot, among the qualifying devices with the largest estimate; the
\* snapshot is in the order in which the allow-list names the devices (all
\* devices in ascending order when there is no allow-list); so the device
\* has the lowest id among them when the allow-list is ascending or absent.
C16_TieToFirstInAllowListOrder ==
    pc = "persist" =>
        LET d == free_mem_dict
            ids == effective_ids(gpu_ids)
        IN /\ dict_get(d, best_gpu) \in Top(d)
           /\ \A k \in Top(d) : dict_get(d, best_gpu) <= k
           /\ \A i, j \in 1..Len(d) :
                i < j => FirstPos(ids, d[i][1]) < FirstPos(ids, d[j][1])
           /\ Ascending(ids) => \A k \in Top(d) : best_gpu <= d[k][1]

\* C16 witness: with the allow-list 1, 0 both devices report 8000 and the
\* job is launched on device 1.
C16_Witness ==
    /\ pc = "persist"
    /\ gpu_ids = <<1, 0>>
    /\ free_mem_dict = <<<<1, 8000>>, <<0, 8000>>>>
    /\ best_gpu = 1

\* the file holds exactly the given jobs, one per line
Holds(lines, jobs) ==
    /\ \A k \in 1..Len(lines) : IsRecord(lines[k])
    /\ Records(lines) = jobs

\* C17: with two schedulers on one ledger file every full rewrite, by
\* either of them and whatever the other has written since the writer
\* loaded the file, leaves the file holding exactly the writer's own
\* in-memory list: nothing is merged and no step waits for the other
\* scheduler.  (The two interleavings of the claim are the witness.)
C17_LastFullRewriteWins ==
    [][ (disk' # disk /\ pc # "ingest") =>
          IF second' # second
          THEN Holds(disk', all_jobs2')
          ELSE Holds(disk', all_jobs')
      ]_vars

\* C17 witness: the first scheduler started a process for a record and
\* persisted the assignment, the second one overwrote it from a stale list
\* so that the file shows the record as pending again, and the second one
\* has started a process of its own for the same record.
C17_Witness ==
    \E k \in 1..Len(Ledger) :
       /\ Ledger[k].status = "pending"
       /\ k <= Len(all_jobs)
       /\ all_jobs[k].command = Ledger[k].command
       /\ all_jobs[k].status = "running"
       /\ all_jobs[k].pid \in DOMAIN procs
       /\ procs[all_jobs[k].pid].child
       /\ procs[all_jobs[k].pid].command = Ledger[k].command
       /\ \E q \in children2 : procs[q].command = Ledger[k].command

\* C17 second witness: both schedulers loaded the file while the record was
\* pending and each has started a process for it; neither has persisted yet.
C17_WitnessBothLaunch ==
    /\ pc = "persist"
    /\ pc2 = "persist"
    /\ procs[process_pid].command = procs[process_pid2].command
    /\ pending_jobs[job_i] = pending_jobs2[job_i2]
    /\ Ledger[pending_jobs[job_i]].status = "pending"

\* the scheduler is inside a cycle, between its reload and its sleep
InCycle == pc \in {"reload", "snapshot", "assign", "persist", "wait"}

\* C18: a scheduler that is not stopped reaches the inter-cycle sleep from
\* every point of a cycle and starts a new cycle after every sleep, whether
\* or not a launched command ever exits; in no state of the loop is the
\* scheduler without a next step.
C18_EveryCycleReachesSleep ==
    /\ InCycle ~> pc = "sleep"
    /\ pc = "sleep" ~> pc = "reload"
    /\ [](pc # "down" => ENABLED SchedulerStep)

\* C18 witness: the scheduler sleeps at the end of a cycle in which it
\* launched a command, and that command is still running.
C18_Witness ==
    /\ pc = "sleep"
    /\ \E k \in 1..Len(all_jobs) :
         /\ all_jobs[k].status = "running"
         /\ all_jobs[k].start_time = now
         /\ all_jobs[k].pid \in DOMAIN procs
         /\ procs[all_jobs[k].pid].child
         /\ Alive(all_jobs[k].pid)

\* the processes run_cudaq has started: pid 1 is the one an earlier session
\* left behind
Launched == 2..Len(procs)

\* C19: over all cycles, stops and restarts of the one scheduler, no two of
\* the processes it has started run the command of the same ledger record
\* (the ledger holds one record per command).
C19_LaunchedAtMostOnce ==
    \A p, q \in Launched : p # q => procs[p].command # procs[q].command

Unset == <<None, None, None, None>>
AllSet(job) ==
    /\ job.gpu_id # None /\ job.pid # None
    /\ job.start_time # None /\ job.log_file # None

\* a record is pending with its four dispatch fields unset, or not pending
\* with all four set
WellFormed(job) ==
    /\ job.status \in Statuses
    /\ job.status = "pending" <=> DispatchFields(job) = Unset
    /\ job.status # "pending" => AllSet(job)

\* the scheduler started on a ledger file that is empty or holds only
\* well-formed records
InitWellFormed ==
    /\ Init
    /\ \A k \in 1..Len(disk) : IsRecord(disk[k])
    /\ \A k \in 1..Len(Ledger) : WellFormed(Ledger[k])

SpecWellFormed == InitWellFormed /\ [][Next]_vars

\* C20: started on an empty or well-formed ledger, the file always holds
\* only records that are pending with gpu_id, pid, start_time and log_file
\* all unset, or not pending with all four set; the rewrite that records a
\* dispatch sets them to the device chosen, the pid of the process started
\* and the time of the dispatch, and no later write changes them.
C20_PendingIffDispatchFieldsUnset ==
    /\ [](\A k \in 1..Len(Ledger) : WellFormed(Ledger[k]))
    /\ [][ disk' # disk =>
             LET before == Ledger
                 after == Records(disk')
             IN \A k \in 1..Len(before) :
                  /\ before[k].status # "pending" =>
                       DispatchFields(after[k]) = DispatchFields(before[k])
                  /\ (before[k].status = "pending"
                        /\ after[k].status # "pending") =>
                       DispatchFields(after[k]) =
                         <<best_gpu, process_pid, now, now>>
         ]_vars

\* C20 witness: the file holds a pending record with the four fields unset
\* next to a record this scheduler dispatched, which a reconciliation has
\* since made failed and which still has the four fields of its dispatch.
C20_Witness ==
    \E k, m \in 1..Len(Ledger) :
        /\ Ledger[k].status = "pending"
        /\ DispatchFields(Ledger[k]) = Unset
        /\ Terminal(Ledger[m])
        /\ Ledger[m].pid \in Launched
        /\ DispatchFields(Ledger[m]) =
             <<procs[Ledger[m].pid].gpu, Ledger[m].pid, Ledger[m].start_time,
               Ledger[m].start_time>>
        /\ Ledger[m].start_time >= 1

====
